---------------------------- MODULE Spec2Model ----------------------------
(***************************************************************************)
(* Atlassian OAuth connection lifecycle of the settings/connections page:  *)
(* the AtlassianConnection component, the page that hosts it, and the      *)
(* fetch wrappers of $lib/apis/atlassian they both call.                   *)
(*                                                                         *)
(* The browser runs one JavaScript task at a time, so every action below   *)
(* is one run-to-completion slice of a handler: it starts at a user event, *)
(* a mount or the arrival of an HTTP response, and ends where the handler  *)
(* suspends at its next network request (or returns).                      *)
(*                                                                         *)
(* Three specifications share the variables: Spec is the settings page     *)
(* with the panel, PickerSpec the content picker modal, RenderSpec the     *)
(* picker's renderers applied to every document within the bounds. Each    *)
(* leaves the variables of the other two at their initial values.          *)
(* LiveSpec is one session on the settings page or in the picker, with     *)
(* every issued request answered in the end.                               *)
(***************************************************************************)
EXTENDS Naturals, FiniteSets, Sequences

(***************************************************************************)
(* Values                                                                  *)
(***************************************************************************)
\* JavaScript null: URLSearchParams.get / localStorage.getItem of an absent key.
Null == "null"

\* The empty string (a parameter present without a value, "?state=").
Empty == ""

\* OAuth state tokens generateOAuthState can return.
States == {"s1", "s2"}

\* Authorization codes the identity provider hands out.
Codes == {"c1"}

\* Values of the error query parameter.
Errors == {"access_denied"}

\* JavaScript truthiness of a string-or-null value.
Truthy(v) == v # Null /\ v # Empty

\* window.location.search, as the three parameters the handlers read.
Urls == [code : Codes \cup {Null, Empty},
         state : States \cup {Null, Empty},
         error : Errors \cup {Null}]

\* The address the authorization server sent the browser back to, left as it is.
HrefUrl == [code |-> "c1", state |-> "s1", error |-> Null]

\* The URL after window.history.replaceState(.., pathname) or
\* goto('/settings/connections', {replaceState: true}): no query string.
CleanUrl == [code |-> Null, state |-> Null, error |-> Null]

\* How many page loads the user performs by hand (returns from the identity
\* provider, followed links, refreshes) in one explored behaviour.
MaxLoads == 2

(***************************************************************************)
(* Backend (external collaborator)                                         *)
(***************************************************************************)
\* Outcomes of one fetch: a 2xx JSON body, a non-2xx JSON body with a detail
\* field, a non-2xx body without one (or not JSON), a network failure.
Responses == {"ok", "errDetail", "errNoDetail", "network"}

\* Sites of the connected account, as the status endpoint lists them.
BackendSites == {"site1", "site2"}

\* Body of a 2xx answer of GET /atlassian/connection/status.
StatusBody(connected) ==
    [kind |-> "status", connected |-> connected,
     sites |-> IF connected THEN BackendSites ELSE {}]

\* The configurations getBackendConfig can deliver.
BackendConfigs ==
    { [enable_atlassian_integration |-> TRUE,  client_id |-> "cid", redirect_uri |-> "uri"],
      [enable_atlassian_integration |-> TRUE,  client_id |-> "",    redirect_uri |-> "uri"],
      [enable_atlassian_integration |-> TRUE,  client_id |-> "cid", redirect_uri |-> ""],
      [enable_atlassian_integration |-> FALSE, client_id |-> "cid", redirect_uri |-> "uri"] }

\* What getBackendConfig has not yet delivered: the page's `let config = {}`.
EmptyConfig == [enable_atlassian_integration |-> FALSE, client_id |-> "", redirect_uri |-> ""]

(***************************************************************************)
(* $lib/apis/atlassian: the fetch wrappers                                 *)
(***************************************************************************)
\* What a wrapper resolves with when its .catch handler returned null.
JsNull == [kind |-> "null"]

\* `error = err.detail` in the .catch handler: the detail of a non-2xx JSON
\* body that has one; undefined (falsy) for a body without detail and for the
\* TypeError of a failed fetch.
CaughtDetail(resp) == IF resp = "errDetail" THEN "detail" ELSE Null

\* The body shared by every client method: fetch, then / catch, then
\* `if (error) throw error; return res`.
FetchWrapper(resp, body) ==
    IF resp = "ok"
    THEN [kind |-> "resolve", value |-> body]
    ELSE IF Truthy(CaughtDetail(resp))
         THEN [kind |-> "reject", value |-> [kind |-> "detail"]]
         ELSE [kind |-> "resolve", value |-> JsNull]

\* A status method that throws when the body says connected: false.
getAtlassianConnectionStatusStrict(resp, connected) ==
    IF resp = "ok" /\ ~connected
    THEN [kind |-> "reject", value |-> [kind |-> "detail"]]
    ELSE FetchWrapper(resp, StatusBody(connected))

getAtlassianConnectionStatus(resp, connected) == FetchWrapper(resp, StatusBody(connected))

handleAtlassianCallback(resp) == FetchWrapper(resp, [kind |-> "callback"])

disconnectAtlassian(resp) == FetchWrapper(resp, [kind |-> "detail"])

(***************************************************************************)
(* State                                                                   *)
(***************************************************************************)
VARIABLES
    where,            \* "page": the settings page is loaded; "away": at the identity provider
    url,              \* window.location.search of the settings page
    slot,             \* localStorage['atlassian_oauth_state'] (Null: absent)
    cpc,              \* where the component's onMount stands
    loading,          \* the component's loading flag
    connectionStatus, \* the component's connectionStatus
    dpc,              \* "await" while handleDisconnect's DELETE is in flight
    ppc,              \* where the page's onMount stands
    pageLoading,      \* the page's loading flag (the blocking overlay)
    config,           \* the page's config, passed to the component as a prop
    backendConfig,    \* the configuration the backend serves
    backendConnected, \* whether the backend holds a connection record for the user
    toasts,           \* messages shown since the page was loaded
    issued,           \* history: callback exchanges issued since the last load by hand
    consumed,         \* history: states verified and cleared since the last connect
    lastCall,         \* history: the client call that completed last
    failedKinds,      \* history: request kinds that failed since the last user action or page load
    loads,            \* history: page loads by hand so far
    landed,           \* history: the URL the current document was loaded with
    generated,        \* history: the state the latest connect generated (Null: none yet)
    verified,         \* history: the page's latest check of a returned state, with the
                      \* state the latest connect had generated by then
    asked,            \* history: what confirm() returned to the latest handleDisconnect
                      \* of this document ("none": it has not been asked)
    \* --- the content picker modal ---
    show,               \* prop bound by the parent: the modal is open
    pickerLoading,      \* the picker's `loading`
    searchQuery,
    selectedSite,
    selectedType,
    searchResults,
    sites,
    connected,
    noConfluenceAccess,
    confluenceSpaces,
    selectedSpace,
    loadingSpaces,
    pickerToasts,       \* messages the picker has shown
    pkc,                \* where the picker's onMount stands
    inflight,           \* the picker's requests awaiting their answer, oldest first
    selections,         \* history: the values handed to onSelect, in order
    lastSearch,         \* history: the search answer handled last
    lastDetail,         \* history: the detail answer handled last
    \* --- the renderers applied to one fetched document ---
    renderIn,           \* the document: an ADF description or a Confluence body
    rendered            \* the text rendered from it (NotRendered: not yet)

browserVars == <<where, url, slot>>
compVars == <<cpc, loading, connectionStatus, dpc>>
pageVars == <<ppc, pageLoading, config>>
backendVars == <<backendConfig, backendConnected>>
historyVars ==
    <<issued, consumed, lastCall, failedKinds, loads, landed, generated, verified, asked>>
pickerVars ==
    <<show, pickerLoading, searchQuery, selectedSite, selectedType, searchResults, sites,
      connected, noConfluenceAccess, confluenceSpaces, selectedSpace, loadingSpaces,
      pickerToasts, pkc, inflight, selections, lastSearch, lastDetail>>
renderVars == <<renderIn, rendered>>
panelVars == <<browserVars, compVars, pageVars, toasts, historyVars>>
vars == <<panelVars, backendVars, pickerVars, renderVars>>

\* `let connectionStatus = {connected: false, sites: []}`.
InitialStatus == [kind |-> "status", connected |-> FALSE, sites |-> {}]

NoCheck == [ran |-> FALSE, state |-> Null, storedState |-> Null, latest |-> Null,
            accepted |-> FALSE]

NoDetail == [answer |-> "none"]

NoSearch == [answer |-> "none", shown |-> "none"]

NoCall == [method |-> "none", resp |-> "none", outcome |-> "none", shown |-> "none",
           value |-> JsNull, served |-> FALSE]

\* The reactive declarations of the component, derived from its config prop.
atlassianEnabled == config.enable_atlassian_integration
clientId == config.client_id
redirectUri == config.redirect_uri

PanelInit ==
    /\ where = "page"
    /\ url = CleanUrl
    /\ slot = Null
    /\ cpc = "mount"
    /\ loading = FALSE
    /\ connectionStatus = InitialStatus
    /\ dpc = "idle"
    /\ ppc = "mount"
    /\ pageLoading = FALSE
    /\ config = EmptyConfig
    /\ backendConfig \in BackendConfigs
    /\ backendConnected \in BOOLEAN
    /\ toasts = {}
    /\ issued = <<>>
    /\ consumed = {}
    /\ lastCall = NoCall
    /\ failedKinds = {}
    /\ loads = 0
    /\ landed = CleanUrl
    /\ generated = Null
    /\ verified = NoCheck
    /\ asked = "none"

\* The picker as its script block declares it, not yet mounted.
PickerInitial ==
    /\ show = FALSE
    /\ pickerLoading = FALSE
    /\ searchQuery = ""
    /\ selectedSite = Null
    /\ selectedType = "jira"
    /\ searchResults = <<>>
    /\ sites = {}
    /\ connected = FALSE
    /\ noConfluenceAccess = FALSE
    /\ confluenceSpaces = {}
    /\ selectedSpace = Null
    /\ loadingSpaces = FALSE
    /\ pickerToasts = {}
    /\ pkc = "mount"
    /\ inflight = <<>>
    /\ selections = <<>>
    /\ lastSearch = NoSearch
    /\ lastDetail = NoDetail

NotRendered == [kind |-> "none"]

\* No document is being rendered.
RenderIdle == renderIn = [kind |-> "none"] /\ rendered = NotRendered

\* The settings page with the panel; no picker, nothing rendered.
Init == PanelInit /\ PickerInitial /\ RenderIdle

(***************************************************************************)
(* Backend answers (external collaborator)                                 *)
(***************************************************************************)
\* The connection record after POST /atlassian/connection/callback answered.
BackendAfterCallback(resp) == IF resp = "ok" THEN TRUE ELSE backendConnected

\* The connection record after DELETE /atlassian/connection answered.
BackendAfterDisconnect(resp) == IF resp = "ok" THEN FALSE ELSE backendConnected

\* A request is cut off when its page goes away: the backend may have served it.
BackendAfterAbort ==
    {backendConnected}
        \cup (IF cpc = "awaitCallback" \/ ppc = "awaitCallback" THEN {TRUE} ELSE {})
        \cup (IF dpc = "await" THEN {FALSE} ELSE {})

\* The connection record goes away behind the browser's back: an admin
\* removes it, or its refresh token expires.
ConnectionRevoked ==
    /\ backendConnected
    /\ UNCHANGED <<pickerVars, renderVars>>
    /\ backendConnected' = FALSE
    /\ UNCHANGED <<panelVars, backendConfig>>

(***************************************************************************)
(* Page loads                                                              *)
(***************************************************************************)
\* A fresh document: both script blocks run again from their declarations.
FreshPage(u) ==
    /\ where' = "page"
    /\ url' = u
    /\ cpc' = "mount"
    /\ loading' = FALSE
    /\ connectionStatus' = InitialStatus
    /\ dpc' = "idle"
    /\ ppc' = "mount"
    /\ pageLoading' = FALSE
    /\ config' = EmptyConfig
    /\ toasts' = {}
    /\ landed' = u
    /\ failedKinds' = {}
    /\ asked' = "none"

\* The user lands on /settings/connections: the return from the identity
\* provider, a followed link, a refresh, the back button.
LoadPage(u) ==
    /\ loads < MaxLoads
    /\ UNCHANGED <<pickerVars, renderVars>>
    /\ FreshPage(u)
    /\ backendConnected' \in BackendAfterAbort
    /\ issued' = <<>>
    /\ loads' = loads + 1
    /\ UNCHANGED <<slot, backendConfig, consumed, lastCall, generated, verified>>

(***************************************************************************)
(* AtlassianConnection.svelte                                              *)
(***************************************************************************)
\* A loadConnectionStatus that raises loading before it looks at the setting.
MountStatusFlagFirst(ld) ==
    IF atlassianEnabled
    THEN loading' = TRUE /\ cpc' = "awaitStatusMount"
    ELSE loading' = TRUE /\ cpc' = "done"

\* loadConnectionStatus as onMount calls it last: it returns at once unless
\* the integration is enabled, else raises loading and awaits the status.
MountStatus(ld) ==
    IF atlassianEnabled
    THEN loading' = TRUE /\ cpc' = "awaitStatusMount"
    ELSE loading' = ld /\ cpc' = "done"

\* A handler that exchanges any code, with or without a state.
ComponentExchangesCodeOnly == ~Truthy(url.error) /\ Truthy(url.code)

\* Whether the component's handleOAuthCallback exchanges the code of url:
\* no error parameter, a code and a state; the stored state is not consulted.
ComponentExchanges == ~Truthy(url.error) /\ Truthy(url.code) /\ Truthy(url.state)

\* The kinds of request that failed, after a request of kind `kind` was
\* answered with resp.
Failed(kinds, kind, resp) == IF resp = "ok" THEN kinds ELSE kinds \cup {kind}

\* A catch branch that leaves the query string in place.
UrlKeptAfterFailedExchange == url

\* The component's catch branch: window.history.replaceState(.., pathname).
UrlAfterFailedExchange == CleanUrl

\* A handler that looks for the code before it looks for the error.
ComponentBranchCodeFirst ==
    IF Truthy(url.code) /\ Truthy(url.state) THEN "exchange"
    ELSE IF Truthy(url.error) THEN "error"
    ELSE "none"

\* The path the component's handleOAuthCallback takes: `if (error)` comes
\* first, then `if (code && state)`.
ComponentBranch ==
    IF Truthy(url.error) THEN "error"
    ELSE IF ComponentExchanges THEN "exchange"
    ELSE "none"

\* The exchange request a handler issues for the current url.
Exchange(by) ==
    [by |-> by, code |-> url.code, state |-> url.state,
     stored |-> slot, replay |-> url.state \in consumed]

\* onMount up to its first network request: handleOAuthCallback reads the
\* URL, then either awaits the exchange or falls through to the status load.
CompMount ==
    /\ where = "page"
    /\ UNCHANGED <<pickerVars, renderVars>>
    /\ cpc = "mount"
    /\ IF ComponentBranch = "error"
       THEN /\ toasts' = toasts \cup {"OAuth authentication failed"}
            /\ url' = CleanUrl
            /\ MountStatus(loading)
            /\ UNCHANGED issued
       ELSE IF ComponentBranch = "exchange"
       THEN /\ loading' = TRUE
            /\ cpc' = "awaitCallback"
            /\ issued' = Append(issued, Exchange("component"))
            /\ UNCHANGED <<toasts, url>>
       ELSE /\ MountStatus(loading)
            /\ UNCHANGED <<toasts, url, issued>>
    /\ UNCHANGED <<where, slot, connectionStatus, dpc, pageVars, backendVars,
                   consumed, lastCall, failedKinds, loads, landed, generated, verified, asked>>

\* The exchange answered: the rest of handleOAuthCallback, then onMount's
\* status load up to its request.
CompExchangeResponse(resp) ==
    LET r == handleAtlassianCallback(resp) IN
    /\ where = "page"
    /\ UNCHANGED <<pickerVars, renderVars>>
    /\ cpc = "awaitCallback"
    /\ backendConnected' = BackendAfterCallback(resp)
    /\ url' = IF r.kind = "resolve" THEN CleanUrl ELSE UrlAfterFailedExchange
    /\ IF r.kind = "resolve"
       THEN /\ toasts' = toasts \cup {"Atlassian account connected successfully"}
            /\ IF atlassianEnabled
               THEN loading' = TRUE /\ cpc' = "awaitStatusCb"
               ELSE loading' = FALSE /\ cpc' = "done"
       ELSE /\ toasts' = toasts \cup {"Failed to connect Atlassian account"}
            /\ MountStatus(FALSE)
    /\ lastCall' = [method |-> "callback", resp |-> resp, outcome |-> r.kind,
                    shown |-> IF r.kind = "resolve" THEN "success" ELSE "failure",
                    value |-> r.value, served |-> backendConnected]
    /\ failedKinds' = Failed(failedKinds, "callback", resp)
    /\ UNCHANGED <<where, slot, connectionStatus, dpc, pageVars, backendConfig,
                   issued, consumed, loads, landed, generated, verified, asked>>

\* The status answered: the rest of loadConnectionStatus and of its caller.
CompStatusResponse(resp) ==
    LET r == getAtlassianConnectionStatus(resp, backendConnected) IN
    /\ where = "page"
    /\ UNCHANGED <<pickerVars, renderVars>>
    /\ cpc \in {"awaitStatusCb", "awaitStatusMount"}
    /\ IF r.kind = "resolve"
       THEN connectionStatus' = r.value /\ UNCHANGED toasts
       ELSE /\ toasts' = toasts \cup {"Failed to load Atlassian connection status"}
            /\ UNCHANGED connectionStatus
    /\ IF cpc = "awaitStatusCb"
       THEN MountStatus(FALSE)
       ELSE loading' = FALSE /\ cpc' = "done"
    /\ lastCall' = [method |-> "status", resp |-> resp, outcome |-> r.kind,
                    shown |-> IF r.kind = "resolve" THEN "none" ELSE "failure",
                    value |-> r.value, served |-> backendConnected]
    /\ failedKinds' = Failed(failedKinds, "status", resp)
    /\ UNCHANGED <<browserVars, dpc, pageVars, backendVars, issued, consumed, loads,
                   landed, generated, verified, asked>>

\* The template draws the panel only when the integration is enabled; it
\* reads connectionStatus.connected, which throws on null.
PanelRendered == atlassianEnabled /\ connectionStatus.kind = "status"

\* {#if loading} spinner {:else if connectionStatus.connected} Disconnect {:else} Connect
ConnectShown == PanelRendered /\ ~loading /\ ~connectionStatus.connected

DisconnectShown == PanelRendered /\ ~loading /\ connectionStatus.connected

\* A guard that forgets the redirect URI.
ConnectConfiguredClientIdOnly == clientId # ""

\* `!clientId || !redirectUri` negated: handleConnect's configuration guard.
ConnectConfigured == clientId # "" /\ redirectUri # ""

\* The Connect button: a configuration error, or a fresh state is stored and
\* the browser leaves for the authorization URL.
HandleConnect ==
    /\ where = "page"
    /\ UNCHANGED <<pickerVars, renderVars>>
    /\ ConnectShown
    /\ IF ~ConnectConfigured
       THEN /\ toasts' = toasts \cup {"Atlassian integration is not properly configured"}
            /\ UNCHANGED <<browserVars, compVars, pageVars, backendVars, historyVars>>
       ELSE /\ \E state \in States : slot' = state /\ generated' = state
            /\ where' = "away"
            /\ cpc' = "gone"
            /\ ppc' = "gone"
            /\ dpc' = "idle"
            /\ loading' = FALSE
            /\ pageLoading' = FALSE
            /\ connectionStatus' = InitialStatus
            /\ config' = EmptyConfig
            /\ toasts' = {}
            /\ consumed' = {}
            /\ failedKinds' = {}
            /\ asked' = "none"
            /\ backendConnected' \in BackendAfterAbort
            /\ UNCHANGED <<url, backendConfig, issued, lastCall, loads, landed, verified>>

\* A handler that goes on whatever confirm() returned.
ProceedsAnyway(confirmed) == TRUE

\* `if (!confirm(..)) return;`: handleDisconnect goes on only when confirmed.
Proceeds(confirmed) == confirmed

\* The Disconnect button, up to the DELETE request.
HandleDisconnect(confirmed) ==
    /\ where = "page"
    /\ UNCHANGED <<pickerVars, renderVars>>
    /\ DisconnectShown
    /\ asked' = IF confirmed THEN "yes" ELSE "no"
    /\ IF Proceeds(confirmed)
       THEN /\ loading' = TRUE
            /\ dpc' = "await"
       ELSE UNCHANGED <<loading, dpc>>
    /\ failedKinds' = IF Proceeds(confirmed) THEN {} ELSE failedKinds
    /\ UNCHANGED <<browserVars, cpc, connectionStatus, pageVars, backendVars, toasts,
                   issued, consumed, lastCall, loads, landed, generated, verified>>

\* The DELETE answered: the rest of handleDisconnect.
DisconnectResponse(resp) ==
    LET r == disconnectAtlassian(resp) IN
    /\ where = "page"
    /\ UNCHANGED <<pickerVars, renderVars>>
    /\ dpc = "await"
    /\ backendConnected' = BackendAfterDisconnect(resp)
    /\ IF r.kind = "resolve"
       THEN /\ connectionStatus' = InitialStatus
            /\ toasts' = toasts \cup {"Atlassian account disconnected successfully"}
       ELSE /\ toasts' = toasts \cup {"Failed to disconnect Atlassian account"}
            /\ UNCHANGED connectionStatus
    /\ loading' = FALSE
    /\ dpc' = "idle"
    /\ lastCall' = [method |-> "disconnect", resp |-> resp, outcome |-> r.kind,
                    shown |-> IF r.kind = "resolve" THEN "success" ELSE "failure",
                    value |-> r.value, served |-> backendConnected]
    /\ failedKinds' = Failed(failedKinds, "disconnect", resp)
    /\ UNCHANGED <<browserVars, cpc, pageVars, backendConfig, issued, consumed, loads,
                   landed, generated, verified, asked>>

(***************************************************************************)
(* The settings/connections page                                           *)
(***************************************************************************)
\* A comparison that lets any state through when nothing is stored.
VerifyStateUnlessEmpty(state, storedState) == state = storedState \/ storedState = Null

\* `state !== storedState` negated: the page's check of the returned state.
VerifyState(state, storedState) == state = storedState

\* onMount of the page runs after the component's and awaits loadConfig.
PageMount ==
    /\ where = "page"
    /\ UNCHANGED <<pickerVars, renderVars>>
    /\ ppc = "mount"
    /\ cpc # "mount"
    /\ ppc' = "awaitConfig"
    /\ UNCHANGED <<browserVars, compVars, pageLoading, config, backendVars,
                   toasts, historyVars>>

\* getBackendConfig answered: the rest of loadConfig, then handleOAuthCallback
\* up to its exchange request.
PageConfigResponse(ok) ==
    LET shown == IF ok THEN toasts ELSE toasts \cup {"Failed to load configuration"} IN
    /\ where = "page"
    /\ UNCHANGED <<pickerVars, renderVars>>
    /\ ppc = "awaitConfig"
    /\ config' = IF ok THEN backendConfig ELSE config
    /\ IF Truthy(url.error)
       THEN /\ toasts' = shown \cup {"OAuth authentication failed"}
            /\ url' = CleanUrl
            /\ ppc' = "done"
            /\ UNCHANGED <<slot, pageLoading, issued, consumed, verified>>
       ELSE IF Truthy(url.code) /\ Truthy(url.state)
       THEN /\ verified' = [ran |-> TRUE, state |-> url.state, storedState |-> slot,
                            latest |-> generated, accepted |-> VerifyState(url.state, slot)]
            /\ IF ~VerifyState(url.state, slot)
               THEN /\ toasts' = shown \cup {"OAuth state verification failed"}
                    /\ url' = CleanUrl
                    /\ ppc' = "done"
                    /\ UNCHANGED <<slot, pageLoading, issued, consumed>>
               ELSE /\ slot' = Null
                    /\ pageLoading' = TRUE
                    /\ ppc' = "awaitCallback"
                    /\ issued' = Append(issued, Exchange("page"))
                    /\ consumed' = consumed \cup {url.state}
                    /\ toasts' = shown
                    /\ UNCHANGED url
       ELSE /\ toasts' = shown
            /\ ppc' = "done"
            /\ UNCHANGED <<url, slot, pageLoading, issued, consumed, verified>>
    /\ UNCHANGED <<where, compVars, backendVars, lastCall, failedKinds, loads, landed,
                   generated, asked>>

\* What window.location.reload() loads right after goto(.., {replaceState}):
\* goto rewrites the URL only once its navigation has run, so the reload
\* may still carry the query string.
ReloadUrls == {CleanUrl, url}

\* The page's exchange answered: success toast and reload, or failure toast.
PageExchangeResponse(resp) ==
    LET r == handleAtlassianCallback(resp) IN
    /\ where = "page"
    /\ UNCHANGED <<pickerVars, renderVars>>
    /\ ppc = "awaitCallback"
    /\ lastCall' = [method |-> "callback", resp |-> resp, outcome |-> r.kind,
                    shown |-> IF r.kind = "resolve" THEN "success" ELSE "failure",
                    value |-> r.value, served |-> backendConnected]
    /\ IF r.kind = "resolve"
       THEN /\ \E u \in ReloadUrls : FreshPage(u)
            /\ backendConnected' \in
                   {BackendAfterCallback(resp)}
                       \cup (IF cpc = "awaitCallback" THEN {TRUE} ELSE {})
                       \cup (IF dpc = "await" THEN {FALSE} ELSE {})
            /\ UNCHANGED <<slot, backendConfig, issued, consumed, loads, generated, verified>>
       ELSE /\ toasts' = toasts \cup {"Failed to connect Atlassian account"}
            /\ url' = CleanUrl
            /\ pageLoading' = FALSE
            /\ ppc' = "done"
            /\ backendConnected' = BackendAfterCallback(resp)
            /\ failedKinds' = Failed(failedKinds, "callback", resp)
            /\ UNCHANGED <<where, slot, compVars, config, backendConfig,
                           issued, consumed, loads, landed, generated, verified, asked>>

(***************************************************************************)
(* AtlassianContentPicker: the renderers of a fetched document             *)
(***************************************************************************)
\* Text is a sequence of one-character tokens, except that the name of an
\* entity with its semicolon ("amp;") and a notice are one token each.
MaxInline == 2
MaxBlocks == 2
MaxBodyLen == 3

SeqsUpTo(S, n) == UNION { [1..k -> S] : k \in 0..n }

\* Characters String.prototype.trim removes.
Whitespace == {" ", "\n"}

RECURSIVE trimStart(_)
trimStart(text) ==
    IF text # <<>> /\ Head(text) \in Whitespace THEN trimStart(Tail(text)) ELSE text

RECURSIVE trimEnd(_)
trimEnd(text) ==
    IF text # <<>> /\ text[Len(text)] \in Whitespace
    THEN trimEnd(SubSeq(text, 1, Len(text) - 1))
    ELSE text

trim(text) == trimEnd(trimStart(text))

\* ADF nodes: text leaves, and blocks with a content array.
LeafTexts == {"a", "b", " "}
TextNodes ==
    { [type |-> "text", text |-> <<c>>, hasContent |-> FALSE, content |-> <<>>] :
          c \in LeafTexts }
BlockTypes == {"paragraph", "heading"}
Blocks ==
    { [type |-> t, text |-> <<>>, hasContent |-> TRUE, content |-> cs] :
          t \in BlockTypes, cs \in SeqsUpTo(TextNodes, MaxInline) }
AdfDocs ==
    { [type |-> "doc", text |-> <<>>, hasContent |-> TRUE, content |-> bs] :
          bs \in SeqsUpTo(Blocks, MaxBlocks) }
        \cup { [type |-> "doc", text |-> <<>>, hasContent |-> FALSE, content |-> <<>>] }

\* processNode: the node's own text, then each child followed by a newline
\* when the node is a paragraph or a heading.
RECURSIVE processNode(_)
RECURSIVE processChildren(_, _)
processNode(node) ==
    node.text \o (IF node.hasContent THEN processChildren(node, 1) ELSE <<>>)
processChildren(node, i) ==
    IF i > Len(node.content)
    THEN <<>>
    ELSE processNode(node.content[i])
             \o (IF node.type = "paragraph" \/ node.type = "heading" THEN <<"\n">> ELSE <<>>)
             \o processChildren(node, i + 1)

extractTextFromADF(adf) ==
    IF ~adf.hasContent THEN <<>> ELSE trim(processNode(adf))

\* Confluence storage bodies.
BodyTokens == {"&", "amp;", "lt;", "gt;", "nbsp;", "<", ">", "x"}
Bodies == SeqsUpTo(BodyTokens, MaxBodyLen)

\* .replace(/<[^>]*>/g, ''): from a "<" to the first ">" after it.
RECURSIVE StripTags(_)
StripTags(b) ==
    IF b = <<>> THEN <<>>
    ELSE IF Head(b) = "<" /\ \E j \in 2..Len(b) : b[j] = ">"
    THEN LET j == CHOOSE j \in 2..Len(b) : b[j] = ">" /\ \A k \in 2..(j - 1) : b[k] # ">"
         IN  StripTags(SubSeq(b, j + 1, Len(b)))
    ELSE <<Head(b)>> \o StripTags(Tail(b))

\* .replace(/&name/g, ch): every "&" followed by the entity's name.
RECURSIVE ReplaceAll(_, _, _)
ReplaceAll(b, name, ch) ==
    IF b = <<>> THEN <<>>
    ELSE IF Len(b) >= 2 /\ b[1] = "&" /\ b[2] = name
    THEN <<ch>> \o ReplaceAll(SubSeq(b, 3, Len(b)), name, ch)
    ELSE <<Head(b)>> \o ReplaceAll(Tail(b), name, ch)

\* The chain of replace calls on bodyContent.
ConfluenceBodyText(b) ==
    ReplaceAll(ReplaceAll(ReplaceAll(ReplaceAll(StripTags(b),
        "nbsp;", " "), "amp;", "&"), "lt;", "<"), "gt;", ">")

\* fullPage.body as delivered: absent, or with a value (storage.value or value).
PageBodies ==
    { [present |-> TRUE, value |-> b] : b \in Bodies }
        \cup { [present |-> FALSE, value |-> <<>>] }

\* if (bodyContent) ... else 'No content available'
renderBody(body) ==
    IF body.present /\ body.value # <<>>
    THEN ConfluenceBodyText(body.value)
    ELSE <<"No content available">>

\* The panel at rest, with one backend configuration.
PanelIdle ==
    /\ PanelInit
    /\ backendConfig = [enable_atlassian_integration |-> TRUE, client_id |-> "cid",
                        redirect_uri |-> "uri"]

(***************************************************************************)
(* AtlassianContentPicker: the modal                                       *)
(***************************************************************************)
MaxInFlight == 2
MaxSelections == 1

\* What the user can have typed into the search box.
Queries == {"", " ", "jql"}

\* searchQuery.trim()
trimmed(q) == IF q = " " THEN "" ELSE q

ContentTypes == {"jira", "confluence"}

\* One search hit of each kind, as the backend lists them.
Item(type) == [type |-> type, id |-> IF type = "jira" THEN "PROJ-1" ELSE "page1"]

\* 2xx bodies of the two search endpoints: a list of hits (issues / results),
\* or the soft error {error: "no_access"}.
SearchBodies(type) ==
    { [kind |-> "results", items |-> <<>>],
      [kind |-> "results", items |-> <<Item(type)>>],
      [kind |-> "noAccess", items |-> <<>>] }

Spaces == {"SP"}

\* 2xx bodies of GET .../confluence/spaces.
SpacesBodies ==
    { [kind |-> "results", items |-> {}],
      [kind |-> "results", items |-> Spaces],
      [kind |-> "noAccess", items |-> {}] }

searchJiraIssues(resp, body) == FetchWrapper(resp, body)

searchConfluencePages(resp, body) == FetchWrapper(resp, body)

getConfluenceSpaces(resp, body) == FetchWrapper(resp, body)

\* A property read on the awaited value throws when the wrapper resolved null.
Throws(r) == r.kind = "reject" \/ r.value = JsNull

RemoveAt(seq, i) == SubSeq(seq, 1, i - 1) \o SubSeq(seq, i + 1, Len(seq))

\* The picker mounted next to the panel at rest.
PickerInit ==
    /\ PanelIdle
    /\ PickerInitial
    /\ RenderIdle

\* A template that draws the search UI whatever the status said.
SearchUiShownAlways == show

\* The search UI is drawn: the modal is open and the status said connected.
SearchUiShown == show /\ connected

\* The parent opens the modal.
OpenPicker ==
    /\ ~show
    /\ Len(selections) < MaxSelections
    /\ show' = TRUE
    /\ UNCHANGED <<pickerLoading, searchQuery, selectedSite, selectedType, searchResults,
                   sites, connected, noConfluenceAccess, confluenceSpaces, selectedSpace,
                   loadingSpaces, pickerToasts, pkc, inflight, selections, lastSearch, lastDetail>>
    /\ UNCHANGED <<panelVars, backendVars, renderVars>>

\* onMount up to the status request.
PickerMount ==
    /\ pkc = "mount"
    /\ pickerLoading' = TRUE
    /\ pkc' = "awaitStatus"
    /\ UNCHANGED <<show, searchQuery, selectedSite, selectedType, searchResults, sites,
                   connected, noConfluenceAccess, confluenceSpaces, selectedSpace,
                   loadingSpaces, pickerToasts, inflight, selections, lastSearch, lastDetail>>
    /\ UNCHANGED <<panelVars, backendVars, renderVars>>

\* loadConfluenceSpaces up to its request; it returns at once without a site
\* or when the type is not confluence.
LoadsSpaces(site, type) == site # Null /\ type = "confluence"

\* The status answered: the rest of onMount (up to the spaces request when the
\* type is confluence).
PickerStatusResponse(resp) ==
    LET r == getAtlassianConnectionStatus(resp, backendConnected)
        site == IF r.value.sites # {} THEN CHOOSE x \in r.value.sites : TRUE ELSE selectedSite
    IN
    /\ pkc = "awaitStatus"
    /\ IF Throws(r)
       THEN /\ pickerToasts' = pickerToasts \cup {"Failed to load Atlassian connection"}
            /\ pickerLoading' = FALSE
            /\ pkc' = "done"
            /\ UNCHANGED <<connected, sites, selectedSite, loadingSpaces, confluenceSpaces,
                           selectedSpace, inflight>>
       ELSE /\ connected' = r.value.connected
            /\ sites' = r.value.sites
            /\ selectedSite' = site
            /\ IF r.value.sites # {} /\ LoadsSpaces(site, selectedType)
               THEN /\ loadingSpaces' = TRUE
                    /\ confluenceSpaces' = {}
                    /\ selectedSpace' = Null
                    /\ inflight' = Append(inflight, [kind |-> "spaces", mount |-> TRUE])
                    /\ pkc' = "awaitSpaces"
                    /\ UNCHANGED pickerLoading
               ELSE /\ pickerLoading' = FALSE
                    /\ pkc' = "done"
                    /\ UNCHANGED <<loadingSpaces, confluenceSpaces, selectedSpace, inflight>>
            /\ UNCHANGED pickerToasts
    /\ UNCHANGED <<show, searchQuery, selectedType, searchResults, noConfluenceAccess,
                   selections, lastSearch, lastDetail>>
    /\ UNCHANGED <<panelVars, backendVars, renderVars>>

\* The user edits the search box.
TypeQuery(q) ==
    /\ SearchUiShown
    /\ q # searchQuery
    /\ searchQuery' = q
    /\ UNCHANGED <<show, pickerLoading, selectedSite, selectedType, searchResults, sites,
                   connected, noConfluenceAccess, confluenceSpaces, selectedSpace,
                   loadingSpaces, pickerToasts, pkc, inflight, selections, lastSearch, lastDetail>>
    /\ UNCHANGED <<panelVars, backendVars, renderVars>>

\* The site select: its on:change handler.
ChangeSite(site) ==
    /\ SearchUiShown
    /\ site \in sites
    /\ site # selectedSite
    /\ selectedSite' = site
    /\ IF LoadsSpaces(site, selectedType)
       THEN /\ Len(inflight) < MaxInFlight
            /\ loadingSpaces' = TRUE
            /\ confluenceSpaces' = {}
            /\ selectedSpace' = Null
            /\ inflight' = Append(inflight, [kind |-> "spaces", mount |-> FALSE])
       ELSE UNCHANGED <<loadingSpaces, confluenceSpaces, selectedSpace, inflight>>
    /\ UNCHANGED <<show, pickerLoading, searchQuery, selectedType, searchResults, sites,
                   connected, noConfluenceAccess, pickerToasts, pkc, selections,
                   lastSearch, lastDetail>>
    /\ UNCHANGED <<panelVars, backendVars, renderVars>>

\* The content-type select: its on:change handler.
ChangeType(type) ==
    /\ SearchUiShown
    /\ type # selectedType
    /\ selectedType' = type
    /\ noConfluenceAccess' = FALSE
    /\ searchResults' = <<>>
    /\ IF LoadsSpaces(selectedSite, type)
       THEN /\ Len(inflight) < MaxInFlight
            /\ loadingSpaces' = TRUE
            /\ confluenceSpaces' = {}
            /\ selectedSpace' = Null
            /\ inflight' = Append(inflight, [kind |-> "spaces", mount |-> FALSE])
       ELSE UNCHANGED <<loadingSpaces, confluenceSpaces, selectedSpace, inflight>>
    /\ UNCHANGED <<show, pickerLoading, searchQuery, selectedSite, sites, connected,
                   pickerToasts, pkc, selections, lastSearch, lastDetail>>
    /\ UNCHANGED <<panelVars, backendVars, renderVars>>

\* The space select, drawn once spaces are loaded.
SelectSpace(space) ==
    /\ SearchUiShown
    /\ selectedType = "confluence" /\ ~noConfluenceAccess
    /\ ~loadingSpaces /\ confluenceSpaces # {}
    /\ space # selectedSpace
    /\ selectedSpace' = space
    /\ UNCHANGED <<show, pickerLoading, searchQuery, selectedSite, selectedType,
                   searchResults, sites, connected, noConfluenceAccess, confluenceSpaces,
                   loadingSpaces, pickerToasts, pkc, inflight, selections, lastSearch, lastDetail>>
    /\ UNCHANGED <<panelVars, backendVars, renderVars>>

\* The spaces request answered: the rest of loadConfluenceSpaces, and of
\* onMount when onMount awaited it.
SpacesResponse(i, resp, body) ==
    LET r == getConfluenceSpaces(resp, body) IN
    /\ i \in DOMAIN inflight
    /\ inflight[i].kind = "spaces"
    /\ inflight' = RemoveAt(inflight, i)
    /\ confluenceSpaces' =
           IF Throws(r) \/ r.value.kind = "noAccess" THEN {} ELSE r.value.items
    /\ selectedSpace' = Null
    /\ loadingSpaces' = FALSE
    /\ IF inflight[i].mount
       THEN pickerLoading' = FALSE /\ pkc' = "done"
       ELSE UNCHANGED <<pickerLoading, pkc>>
    /\ UNCHANGED <<show, searchQuery, selectedSite, selectedType, searchResults, sites,
                   connected, noConfluenceAccess, pickerToasts, selections, lastSearch, lastDetail>>
    /\ UNCHANGED <<panelVars, backendVars, renderVars>>

\* performSearch up to its request, from the Search button (disabled while
\* loading or without a query) or from the Enter key in the search box.
PerformSearch(byEnter) ==
    /\ SearchUiShown
    /\ byEnter \/ (~pickerLoading /\ trimmed(searchQuery) # "")
    /\ trimmed(searchQuery) # "" /\ selectedSite # Null
    /\ Len(inflight) < MaxInFlight
    /\ pickerLoading' = TRUE
    /\ searchResults' = <<>>
    /\ inflight' = Append(inflight, [kind |-> "search", type |-> selectedType,
                                     query |-> searchQuery])
    /\ UNCHANGED <<show, searchQuery, selectedSite, selectedType, sites, connected,
                   noConfluenceAccess, confluenceSpaces, selectedSpace, loadingSpaces,
                   pickerToasts, pkc, selections, lastSearch, lastDetail>>
    /\ UNCHANGED <<panelVars, backendVars, renderVars>>

\* What came back: a non-2xx or failed fetch, or the kind of the 2xx body.
Answer(resp, body) == IF resp = "ok" THEN body.kind ELSE "failure"

\* A search answered: the rest of performSearch, in the branch its call took.
SearchResponse(i, resp, body) ==
    LET type == inflight[i].type
        r == IF type = "jira" THEN searchJiraIssues(resp, body)
             ELSE searchConfluencePages(resp, body)
    IN
    /\ i \in DOMAIN inflight
    /\ inflight[i].kind = "search"
    /\ resp = "ok" => body \in SearchBodies(type)
    /\ inflight' = RemoveAt(inflight, i)
    /\ IF Throws(r)
       THEN /\ pickerToasts' = pickerToasts \cup {"Search failed"}
            /\ UNCHANGED <<searchResults, noConfluenceAccess>>
       ELSE /\ IF type = "jira"
               THEN /\ searchResults' = r.value.items
                    /\ UNCHANGED noConfluenceAccess
               ELSE IF r.value.kind = "noAccess"
               THEN /\ noConfluenceAccess' = TRUE
                    /\ searchResults' = <<>>
               ELSE /\ noConfluenceAccess' = FALSE
                    /\ searchResults' = r.value.items
            /\ UNCHANGED pickerToasts
    /\ pickerLoading' = FALSE
    /\ lastSearch' = [answer |-> Answer(resp, body),
                      shown |-> IF Throws(r) THEN "failure" ELSE "none"]
    /\ UNCHANGED <<show, searchQuery, selectedSite, selectedType, sites, connected,
                   confluenceSpaces, selectedSpace, loadingSpaces, pkc, selections,
                   lastDetail>>
    /\ UNCHANGED <<panelVars, backendVars, renderVars>>

\* A description as ADF: one paragraph holding one text node.
SampleDoc ==
    [type |-> "doc", text |-> <<>>, hasContent |-> TRUE,
     content |-> << [type |-> "paragraph", text |-> <<>>, hasContent |-> TRUE,
                     content |-> << [type |-> "text", text |-> <<"a">>,
                                     hasContent |-> FALSE, content |-> <<>>] >>] >>]

\* fields.description as delivered: absent, a string, an ADF document, or an
\* object without content.
Descriptions ==
    { [kind |-> "absent"], [kind |-> "string", text |-> <<"b">>],
      [kind |-> "adf", doc |-> SampleDoc],
      [kind |-> "adf", doc |-> [type |-> "doc", text |-> <<>>, hasContent |-> FALSE,
                                content |-> <<>>]] }

\* Issues GET .../jira/issue can deliver: which optional fields are there.
JiraIssues ==
    [key : {"PROJ-1"}, summary : {"Summary"}, status : BOOLEAN, issuetype : BOOLEAN,
     assignee : BOOLEAN, priority : BOOLEAN, description : Descriptions]

\* Pages GET .../confluence/content can deliver.
ConfluencePages ==
    [id : {"page1"}, title : {"Title"}, space : BOOLEAN,
     version : {"absent", "dated", "undated"},
     body : { [present |-> FALSE, value |-> <<>>],
              [present |-> TRUE, value |-> <<"<", ">", "x">>] },
     webui : BOOLEAN]

\* The documents the picker's detail requests are answered with: an issue
\* with every field, one with the required fields only, one without status.
PickerIssues ==
    { [key |-> "PROJ-1", summary |-> "Summary", status |-> TRUE, issuetype |-> TRUE,
       assignee |-> TRUE, priority |-> TRUE, description |-> [kind |-> "adf", doc |-> SampleDoc]],
      [key |-> "PROJ-1", summary |-> "Summary", status |-> TRUE, issuetype |-> TRUE,
       assignee |-> FALSE, priority |-> FALSE, description |-> [kind |-> "absent"]],
      [key |-> "PROJ-1", summary |-> "Summary", status |-> FALSE, issuetype |-> TRUE,
       assignee |-> FALSE, priority |-> FALSE, description |-> [kind |-> "absent"]] }

PickerPages ==
    { [id |-> "page1", title |-> "Title", space |-> TRUE, version |-> "dated",
       body |-> [present |-> TRUE, value |-> <<"<", ">", "x">>], webui |-> TRUE],
      [id |-> "page1", title |-> "Title", space |-> FALSE, version |-> "absent",
       body |-> [present |-> FALSE, value |-> <<>>], webui |-> FALSE] }

getJiraIssue(resp, issue) == FetchWrapper(resp, issue)

getConfluenceContent(resp, page) == FetchWrapper(resp, page)

\* let description = 'No description'; if (fields.description) ...
descriptionText(d) ==
    IF d.kind = "string" THEN d.text
    ELSE IF d.kind = "adf" /\ d.doc.hasContent THEN extractTextFromADF(d.doc)
    ELSE <<"No description">>

\* selectItem, Jira branch: content and metadata, or the TypeError of
\* fields.status.name / fields.issuetype.name on an absent field.
renderJiraIssue(issue, site) ==
    IF ~issue.status \/ ~issue.issuetype
    THEN [kind |-> "throw"]
    ELSE [kind |-> "value",
          content |-> [kind |-> "jira",
                       heading |-> <<issue.key, issue.summary>>,
                       lines |-> <<"Status", "Type">>
                                    \o (IF issue.assignee THEN <<"Assignee">> ELSE <<>>)
                                    \o (IF issue.priority THEN <<"Priority">> ELSE <<>>),
                       text |-> descriptionText(issue.description)],
          metadata |-> [type |-> "atlassian_jira", id |-> issue.key,
                        url |-> <<site, "browse", issue.key>>,
                        title |-> issue.summary, siteId |-> site, siteName |-> site]]

\* selectItem, Confluence branch.
renderConfluencePage(page, site) ==
    [kind |-> "value",
     content |-> [kind |-> "confluence",
                  heading |-> <<page.title>>,
                  lines |-> (IF page.space THEN <<"Space">> ELSE <<>>)
                               \o (IF page.version = "dated" THEN <<"Last Updated">> ELSE <<>>),
                  text |-> renderBody(page.body)],
     metadata |-> [type |-> "atlassian_confluence", id |-> page.id,
                   url |-> IF page.webui THEN <<site, "wiki", "webui">>
                           ELSE <<site, "wiki/spaces", page.id>>,
                   title |-> page.title, siteId |-> site, siteName |-> site]]

\* Detail requests issued and not yet answered.
DetailsInFlight == {i \in DOMAIN inflight : inflight[i].kind = "detail"}

\* A result button: drawn when not loading; selectItem up to its request.
SelectItem(item) ==
    /\ SearchUiShown
    /\ ~pickerLoading
    /\ \E k \in DOMAIN searchResults : searchResults[k] = item
    /\ Len(inflight) < MaxInFlight
    /\ Len(selections) + Cardinality(DetailsInFlight) < MaxSelections
    /\ pickerLoading' = TRUE
    /\ inflight' = Append(inflight, [kind |-> "detail", type |-> selectedType,
                                     site |-> selectedSite, item |-> item])
    /\ UNCHANGED <<show, searchQuery, selectedSite, selectedType, searchResults, sites,
                   connected, noConfluenceAccess, confluenceSpaces, selectedSpace,
                   loadingSpaces, pickerToasts, pkc, selections, lastSearch, lastDetail>>
    /\ UNCHANGED <<panelVars, backendVars, renderVars>>

\* The detail request answered: the rest of selectItem.
DetailResponse(i, resp, doc) ==
    LET type == inflight[i].type
        r == IF type = "jira" THEN getJiraIssue(resp, doc)
             ELSE getConfluenceContent(resp, doc)
        out == IF Throws(r) THEN [kind |-> "throw"]
               ELSE IF type = "jira" THEN renderJiraIssue(r.value, selectedSite)
               ELSE renderConfluencePage(r.value, selectedSite)
    IN
    /\ i \in DOMAIN inflight
    /\ inflight[i].kind = "detail"
    /\ resp = "ok" => doc \in (IF type = "jira" THEN PickerIssues ELSE PickerPages)
    /\ inflight' = RemoveAt(inflight, i)
    /\ IF out.kind = "throw"
       THEN /\ pickerToasts' = pickerToasts \cup {"Failed to fetch content"}
            /\ UNCHANGED <<selections, show>>
       ELSE /\ selections' = Append(selections, [content |-> out.content,
                                                 metadata |-> out.metadata])
            /\ show' = FALSE
            /\ UNCHANGED pickerToasts
    /\ pickerLoading' = FALSE
    /\ UNCHANGED <<searchQuery, selectedSite, selectedType, searchResults, sites,
                   connected, noConfluenceAccess, confluenceSpaces, selectedSpace,
                   loadingSpaces, pkc, lastSearch>>
    /\ lastDetail' = [answer |-> IF resp = "ok" THEN "ok" ELSE "failure"]
    /\ UNCHANGED <<panelVars, backendVars, renderVars>>

AnySearchBody == SearchBodies("jira") \cup SearchBodies("confluence")

\* The bodies an answer can carry: one of `bodies` with a 2xx, none otherwise.
NoBody == [kind |-> "none"]
Bodied(resp, bodies) == IF resp = "ok" THEN bodies ELSE {NoBody}

PickerNext ==
    \/ OpenPicker
    \/ PickerMount
    \/ \E resp \in Responses : PickerStatusResponse(resp)
    \/ \E q \in Queries : TypeQuery(q)
    \/ \E site \in BackendSites : ChangeSite(site)
    \/ \E type \in ContentTypes : ChangeType(type)
    \/ \E space \in Spaces \cup {Null} : SelectSpace(space)
    \/ \E i \in 1..MaxInFlight, resp \in Responses :
           \E body \in Bodied(resp, SpacesBodies) : SpacesResponse(i, resp, body)
    \/ \E byEnter \in BOOLEAN : PerformSearch(byEnter)
    \/ \E i \in 1..MaxInFlight, resp \in Responses :
           \E body \in Bodied(resp, AnySearchBody) : SearchResponse(i, resp, body)
    \/ \E type \in ContentTypes : SelectItem(Item(type))
    \/ \E i \in 1..MaxInFlight, resp \in Responses :
           \E doc \in Bodied(resp, PickerIssues \cup PickerPages) : DetailResponse(i, resp, doc)

PickerSpec == PickerInit /\ [][PickerNext]_vars

(***************************************************************************)
(* The pure functions on every input within the bounds                     *)
(***************************************************************************)
MaxValueLen == 2

\* Characters of a parameter value: a letter, and those the serializer escapes.
ValueChars == {"a", " ", "&", "=", "+", ":"}
ParamValues == SeqsUpTo(ValueChars, MaxValueLen)

\* A serializer that escapes nothing.
formEncodeCharVerbatim(c) == c

\* URLSearchParams.toString on one character: space becomes "+", a reserved
\* character its percent escape, anything else stays.
formEncodeChar(c) ==
    CASE c = " " -> "+"
      [] c = "&" -> "%26"
      [] c = "=" -> "%3D"
      [] c = "+" -> "%2B"
      [] c = ":" -> "%3A"
      [] OTHER -> c

formEncode(v) == [k \in 1..Len(v) |-> formEncodeChar(v[k])]

\* name=value pairs joined by "&".
RECURSIVE serialize(_)
serialize(pairs) ==
    IF pairs = <<>> THEN <<>>
    ELSE <<pairs[1][1], "=">> \o formEncode(pairs[1][2])
             \o (IF Len(pairs) > 1 THEN <<"&">> ELSE <<>>)
             \o serialize(Tail(pairs))

generateAtlassianOAuthURL(client, redirect, scope, state) ==
    [address |-> "https://auth.atlassian.com/authorize",
     query |-> serialize(<< <<"audience", <<"api.atlassian.com">> >>,
                            <<"client_id", client>>,
                            <<"scope", scope>>,
                            <<"redirect_uri", redirect>>,
                            <<"state", state>>,
                            <<"response_type", <<"code">> >>,
                            <<"prompt", <<"consent">> >> >>)]

\* Arguments handleConnect can pass: scope and redirect URI range over every
\* value within the bound.
OAuthArguments ==
    [client : {<<"a">>}, redirect : ParamValues, scope : ParamValues, state : {<<"s1">>}]

RenderInputs ==
    { [kind |-> "oauth", args |-> a] : a \in OAuthArguments }
        \cup { [kind |-> "adf", doc |-> d] : d \in AdfDocs }
        \cup { [kind |-> "body", body |-> b] : b \in PageBodies }
        \cup { [kind |-> "issue", issue |-> i] : i \in JiraIssues }
        \cup { [kind |-> "page", page |-> pg] : pg \in ConfluencePages }

RenderInit ==
    /\ PanelIdle
    /\ backendConnected = TRUE
    /\ PickerInitial
    /\ renderIn \in RenderInputs
    /\ rendered = NotRendered

\* selectItem, Jira branch: description = extractTextFromADF(description).
ExtractDescription ==
    /\ renderIn.kind = "adf"
    /\ rendered = NotRendered
    /\ rendered' = [kind |-> "text", text |-> extractTextFromADF(renderIn.doc)]
    /\ UNCHANGED <<panelVars, backendVars, pickerVars, renderIn>>

\* selectItem, Confluence branch: content += the body as plain text.
RenderBody ==
    /\ renderIn.kind = "body"
    /\ rendered = NotRendered
    /\ rendered' = [kind |-> "text", text |-> renderBody(renderIn.body)]
    /\ UNCHANGED <<panelVars, backendVars, pickerVars, renderIn>>

\* selectItem, Jira branch, on a fetched issue.
RenderIssue ==
    /\ renderIn.kind = "issue"
    /\ rendered = NotRendered
    /\ rendered' = renderJiraIssue(renderIn.issue, "site1")
    /\ UNCHANGED <<panelVars, backendVars, pickerVars, renderIn>>

\* selectItem, Confluence branch, on a fetched page.
RenderPage ==
    /\ renderIn.kind = "page"
    /\ rendered = NotRendered
    /\ rendered' = renderConfluencePage(renderIn.page, "site1")
    /\ UNCHANGED <<panelVars, backendVars, pickerVars, renderIn>>

\* generateAtlassianOAuthURL on its own: it only computes its result.
GenerateOAuthURL ==
    /\ renderIn.kind = "oauth"
    /\ rendered = NotRendered
    /\ rendered' = [kind |-> "url",
                    url |-> generateAtlassianOAuthURL(renderIn.args.client,
                                renderIn.args.redirect, renderIn.args.scope,
                                renderIn.args.state)]
    /\ UNCHANGED <<panelVars, backendVars, pickerVars, renderIn>>

RenderNext ==
    \/ GenerateOAuthURL
    \/ ExtractDescription
    \/ RenderBody
    \/ RenderIssue
    \/ RenderPage

RenderSpec == RenderInit /\ [][RenderNext]_vars

(***************************************************************************)
(* Specification                                                           *)
(***************************************************************************)
Next ==
    \/ \E u \in Urls : LoadPage(u)
    \/ CompMount
    \/ \E resp \in Responses : CompExchangeResponse(resp)
    \/ \E resp \in Responses : CompStatusResponse(resp)
    \/ HandleConnect
    \/ \E confirmed \in BOOLEAN : HandleDisconnect(confirmed)
    \/ \E resp \in Responses : DisconnectResponse(resp)
    \/ PageMount
    \/ \E ok \in BOOLEAN : PageConfigResponse(ok)
    \/ \E resp \in Responses : PageExchangeResponse(resp)
    \/ ConnectionRevoked

Spec == Init /\ [][Next]_vars

(***************************************************************************)
(* One session of the application, with every request answered             *)
(***************************************************************************)
\* /settings/connections and the chat are routes of one application: the
\* session runs the panel's page or the picker, never both at once.
SessionNext ==
    \/ PickerInitial /\ Next
    \/ PanelIdle /\ PickerNext

\* Every request that was issued is answered in the end: the promise of a
\* fetch settles, with a response or with a transport failure.
RequestsComplete ==
    /\ WF_vars(cpc = "awaitCallback" /\ \E resp \in Responses : CompExchangeResponse(resp))
    /\ WF_vars(/\ cpc \in {"awaitStatusCb", "awaitStatusMount"}
               /\ \E resp \in Responses : CompStatusResponse(resp))
    /\ WF_vars(dpc = "await" /\ \E resp \in Responses : DisconnectResponse(resp))
    /\ WF_vars(ppc = "awaitConfig" /\ \E ok \in BOOLEAN : PageConfigResponse(ok))
    /\ WF_vars(ppc = "awaitCallback" /\ \E resp \in Responses : PageExchangeResponse(resp))
    /\ WF_vars(pkc = "awaitStatus" /\ \E resp \in Responses : PickerStatusResponse(resp))
    /\ WF_vars(/\ inflight # <<>>
               /\ \E i \in 1..MaxInFlight, resp \in Responses :
                      \E body \in Bodied(resp, SpacesBodies) : SpacesResponse(i, resp, body))
    /\ WF_vars(/\ inflight # <<>>
               /\ \E i \in 1..MaxInFlight, resp \in Responses :
                      \E body \in Bodied(resp, AnySearchBody) : SearchResponse(i, resp, body))
    /\ WF_vars(/\ inflight # <<>>
               /\ \E i \in 1..MaxInFlight, resp \in Responses :
                      \E doc \in Bodied(resp, PickerIssues \cup PickerPages) :
                          DetailResponse(i, resp, doc))

LiveSpec == Init /\ [][SessionNext]_vars /\ RequestsComplete

(***************************************************************************)
(* Properties                                                              *)
(***************************************************************************)
\* Both onMount handlers of the loaded page have run to their end and no
\* request of the panel is in flight.
Settled == where = "page" /\ cpc = "done" /\ ppc = "done" /\ dpc = "idle"

\* The document was loaded with a callback return: an error parameter, or a
\* code together with a state.
CallbackReturn(u) == Truthy(u.error) \/ (Truthy(u.code) /\ Truthy(u.state))

\* C1: no callback exchange is issued, by the page or by the component, for a
\* return whose state parameter differs from the stored state (an empty slot
\* included): every issued exchange carried the state the slot held.
C1_NoExchangeOnStateMismatch ==
    \A i \in DOMAIN issued : issued[i].state = issued[i].stored

\* C2: when the browser returns with the code and the very state that connect
\* stored, the exchange is issued exactly once, with that code and state,
\* whatever the order in which the two onMount handlers proceed.
C2_ExchangeIssuedExactlyOnce ==
    (issued # <<>> /\ issued[1].state = issued[1].stored)
        => /\ Len(issued) = 1
           /\ issued[1].code = landed.code
           /\ issued[1].state = landed.state

\* C3: at most one callback exchange request is in flight, the page's and the
\* component's counted together.
C3_AtMostOneExchangeInFlight ==
    ~(cpc = "awaitCallback" /\ ppc = "awaitCallback")

\* C4: no status request is issued while a callback exchange is in flight: a
\* step that sends GET /atlassian/connection/status leaves no exchange pending.
C4_NoStatusWhileExchangeInFlight ==
    [][(cpc' \in {"awaitStatusCb", "awaitStatusMount"} /\ cpc' # cpc)
          => (cpc' # "awaitCallback" /\ ppc' # "awaitCallback")]_vars

\* C5: a client method whose response is non-2xx, or whose fetch failed, rejects;
\* it never resolves with a value.
C5_FailureAlwaysRejects ==
    lastCall.resp \in Responses \ {"ok"} => lastCall.outcome = "reject"

\* C6: the success message of a callback exchange is shown only if the exchange
\* received a 2xx response; a rejected or failed exchange shows the failure
\* message.
C6_SuccessOnlyAfter2xx ==
    lastCall.method = "callback"
        => /\ lastCall.shown = "success" => lastCall.resp = "ok"
           /\ lastCall.resp # "ok" => lastCall.shown = "failure"

\* C7: once the handling of a callback return has finished, the stored state
\* slot is empty, whatever the outcome was.
C7_SlotEmptyAfterCallback ==
    (Settled /\ CallbackReturn(landed)) => slot = Null

\* C8: the slot holds the state the latest connect generated until the page
\* verifies it, and the page's verification accepts a returned state exactly
\* when it equals the stored one, which is then the latest generated state: a
\* different state, and any state when nothing is stored, is rejected.
C8_VerifyAcceptsOnlyLatestState ==
    /\ slot = (IF consumed = {} THEN generated ELSE Null)
    /\ where = "away" => slot \in States
    /\ verified.ran =>
          /\ verified.accepted <=> (verified.state = verified.storedState)
          /\ verified.accepted => (verified.state \in States /\ verified.state = verified.latest)
          /\ verified.storedState = Null => ~verified.accepted

\* C8 witness: with a generated state stored, the page has rejected a return
\* that carried another state.
C8_Witness ==
    /\ verified.ran
    /\ ~verified.accepted
    /\ verified.storedState \in States
    /\ verified.storedState = verified.latest
    /\ verified.state \in States

\* C9: a state is single-use: no exchange is issued for a return carrying a
\* state that was already verified and cleared since the last connect.
C9_NoExchangeForUsedState ==
    \A i \in DOMAIN issued : ~issued[i].replay

\* C10: with the integration enabled and a connection held by the backend,
\* every page load ends with the panel having loaded the status and showing
\* connected = true with the backend's sites (stated on the settled page: no
\* handler is left to run, no request is pending, and none has failed).
C10_SettledPanelShowsConnection ==
    (/\ Settled
     /\ atlassianEnabled
     /\ backendConnected
     /\ "Failed to load Atlassian connection status" \notin toasts
     /\ lastCall.resp \in {"none", "ok"})
        => connectionStatus = StatusBody(TRUE)

\* C11: a return that carries an error parameter has no callback exchange
\* issued for it by either handler, code and state present or not, and once
\* the component has mounted the error message is on screen.
C11_ErrorReturnIssuesNoExchange ==
    Truthy(landed.error)
        => /\ issued = <<>>
           /\ cpc # "awaitCallback" /\ ppc # "awaitCallback"
           /\ (where = "page" /\ cpc # "mount") => "OAuth authentication failed" \in toasts

\* C11 witness: a return with error, code and state has been handled to the end.
C11_Witness ==
    /\ Settled
    /\ Truthy(landed.error) /\ Truthy(landed.code) /\ Truthy(landed.state)
    /\ "OAuth authentication failed" \in toasts
    /\ issued = <<>>

\* C12: once the handling of a callback return has finished on the page (both
\* handlers returned without a reload: state mismatch, error parameter or
\* failed exchange), the URL carries no code, state or error parameter.
C12_UrlStrippedAfterFailedCallback ==
    (Settled /\ CallbackReturn(landed))
        => ~Truthy(url.code) /\ ~Truthy(url.state) /\ ~Truthy(url.error)

\* C12 witness: a return with code and state was refused by the page's state
\* verification, handling has finished and the URL is bare.
C12_Witness ==
    /\ Settled
    /\ Truthy(landed.code) /\ Truthy(landed.state) /\ ~Truthy(landed.error)
    /\ "OAuth state verification failed" \in toasts
    /\ ~Truthy(url.code) /\ ~Truthy(url.state)

\* C13: a step that surfaces the configuration error changes nothing else and
\* leaves the panel Unconnected, and the browser leaves for the authorization
\* URL (the only step that generates and stores a state) only when client id
\* and redirect URI are both non-empty.
C13_UnconfiguredConnectOnlyReports ==
    [][ /\ ("Atlassian integration is not properly configured" \in toasts'
              /\ "Atlassian integration is not properly configured" \notin toasts)
            => /\ UNCHANGED <<browserVars, compVars, pageVars, backendVars, historyVars>>
               /\ ~connectionStatus'.connected
        /\ (where = "page" /\ cpc # "gone" /\ (clientId = "" \/ redirectUri = ""))
            => /\ where' = "page"
               /\ generated' = generated
               /\ (slot' = slot \/ slot' = Null)
      ]_vars

\* C13 witness: the configuration error is on screen for a configuration with
\* a client id and no redirect URI, nothing was generated or stored.
C13_Witness ==
    /\ where = "page"
    /\ "Atlassian integration is not properly configured" \in toasts
    /\ clientId # "" /\ redirectUri = ""
    /\ ConnectShown
    /\ slot = Null /\ generated = Null /\ issued = <<>>

\* C14: while a callback exchange is in flight, the component's or the
\* page's, the panel does not offer the Connect button.
C14_NoConnectWhileExchangeInFlight ==
    (where = "page" /\ (cpc = "awaitCallback" \/ ppc = "awaitCallback"))
        => ~ConnectShown

\* C15: after a confirmed disconnect that the backend answered with a
\* not-found error because it held no connection, the panel is Unconnected
\* (connected = false, no sites), as after a successful disconnect.
C15_DisconnectNotFoundEndsUnconnected ==
    (/\ where = "page" /\ dpc = "idle" /\ cpc = "done"
     /\ lastCall.method = "disconnect"
     /\ lastCall.resp = "errDetail"
     /\ ~lastCall.served)
        => connectionStatus = InitialStatus

\* C17: a status request answered 2xx with {connected: false, sites: []}
\* resolves with exactly that body, nothing is thrown, no error is shown and
\* the panel is Unconnected.
C17_UnconnectedStatusResolves ==
    (lastCall.method = "status" /\ lastCall.resp = "ok" /\ ~lastCall.served)
        => /\ lastCall.outcome = "resolve"
           /\ lastCall.value = [kind |-> "status", connected |-> FALSE, sites |-> {}]
           /\ lastCall.shown = "none"
           /\ connectionStatus = [kind |-> "status", connected |-> FALSE, sites |-> {}]

\* C17 witness: the panel has settled after such an answer and offers Connect.
C17_Witness ==
    /\ Settled
    /\ lastCall.method = "status" /\ lastCall.resp = "ok" /\ ~lastCall.served
    /\ lastCall.outcome = "resolve"
    /\ atlassianEnabled
    /\ ConnectShown
    /\ "Failed to load Atlassian connection status" \notin toasts

\* A step issues a request of the given kind.
IssuesStatus == cpc' # cpc /\ cpc' \in {"awaitStatusCb", "awaitStatusMount"}
IssuesCallback ==
    \/ cpc' # cpc /\ cpc' = "awaitCallback"
    \/ ppc' # ppc /\ ppc' = "awaitCallback"
IssuesDisconnect == dpc' # dpc /\ dpc' = "await"

\* C18 as stated: once a request of some kind has failed, no step issues a
\* request of that kind until a user action or a page load.
C18_NoRequestAfterFailureOfItsKind ==
    [][ /\ IssuesStatus => "status" \notin failedKinds'
        /\ IssuesCallback => "callback" \notin failedKinds'
        /\ IssuesDisconnect => "disconnect" \notin failedKinds'
      ]_vars

\* C18 amended: the same, except that onMount loads the status once more
\* after handleOAuthCallback's own status load, failed or not.
C18_NoRequestAfterFailureButMountStatus ==
    [][ /\ (IssuesStatus /\ ~(cpc = "awaitStatusCb" /\ cpc' = "awaitStatusMount"))
              => "status" \notin failedKinds'
        /\ IssuesCallback => "callback" \notin failedKinds'
        /\ IssuesDisconnect => "disconnect" \notin failedKinds'
      ]_vars

\* C18 witness: an exchange failed, the handlers have returned and no second
\* exchange was issued.
C18_Witness ==
    /\ Settled
    /\ "callback" \in failedKinds
    /\ Len(issued) = 1
    /\ Truthy(landed.code) /\ Truthy(landed.state)

\* The text C19 describes: leaf text in document order, one newline after the
\* children of each paragraph or heading node.
RECURSIVE C19_Text(_)
RECURSIVE C19_Children(_, _)
C19_Text(node) ==
    node.text
        \o (IF node.hasContent
            THEN C19_Children(node, 1)
                     \o (IF node.type \in {"paragraph", "heading"} THEN <<"\n">> ELSE <<>>)
            ELSE <<>>)
C19_Children(node, i) ==
    IF i > Len(node.content) THEN <<>>
    ELSE C19_Text(node.content[i]) \o C19_Children(node, i + 1)

\* C19: extractTextFromADF returns the leaf text in document order with
\* exactly one newline per paragraph or heading node, however many children
\* the node has, trimmed.
C19_OneNewlinePerBlock ==
    (renderIn.kind = "adf" /\ rendered # NotRendered)
        => rendered.text = trim(C19_Text(renderIn.doc))

\* The character of each named entity.
C20_EntityChar(name) ==
    CASE name = "nbsp;" -> " " [] name = "amp;" -> "&" [] name = "lt;" -> "<"
      [] name = "gt;" -> ">"

\* Every entity of the input replaced by its character, each decoded once.
RECURSIVE C20_DecodeOnce(_)
C20_DecodeOnce(b) ==
    IF b = <<>> THEN <<>>
    ELSE IF Len(b) >= 2 /\ b[1] = "&" /\ b[2] \in {"nbsp;", "amp;", "lt;", "gt;"}
    THEN <<C20_EntityChar(b[2])>> \o C20_DecodeOnce(SubSeq(b, 3, Len(b)))
    ELSE <<Head(b)>> \o C20_DecodeOnce(Tail(b))

\* C20: the rendered Confluence body is the input without its tags and with
\* each of the four entities decoded once; an absent body renders as the
\* 'No content available' notice.
C20_BodyDecodedOnce ==
    (renderIn.kind = "body" /\ rendered # NotRendered)
        => rendered.text =
               IF renderIn.body.present /\ renderIn.body.value # <<>>
               THEN C20_DecodeOnce(StripTags(renderIn.body.value))
               ELSE <<"No content available">>

\* A step that handles the answer of a search request.
SearchAnswered ==
    \E i \in DOMAIN inflight :
        inflight[i].kind = "search" /\ inflight' = RemoveAt(inflight, i)

\* C16: for either search kind, handling a 2xx answer whose body is
\* {error: "no_access"} leaves the result list empty, sets the no-access flag
\* and shows no 'Search failed'.
C16_NoAccessSetsFlag ==
    [][ (SearchAnswered /\ lastSearch'.answer = "noAccess")
            => /\ searchResults' = <<>>
               /\ noConfluenceAccess'
               /\ lastSearch'.shown = "none"
      ]_vars

\* The field lines of an issue: one for each field that is present.
C21_PresentLines(issue) ==
    (IF issue.status THEN <<"Status">> ELSE <<>>)
        \o (IF issue.issuetype THEN <<"Type">> ELSE <<>>)
        \o (IF issue.assignee THEN <<"Assignee">> ELSE <<>>)
        \o (IF issue.priority THEN <<"Priority">> ELSE <<>>)

\* C21: rendering a fetched Jira issue never fails on an absent optional
\* field: whatever subset of status, issue type, assignee, priority and
\* description is missing, the content has a line for exactly the fields
\* that are present.
C21_AbsentFieldsDegrade ==
    (renderIn.kind = "issue" /\ rendered # NotRendered)
        => /\ rendered.kind = "value"
           /\ rendered.content.lines = C21_PresentLines(renderIn.issue)

\* C22: every step that hands a value to onSelect handles the 2xx answer of
\* one detail request and hands over exactly one value {content, metadata},
\* whose metadata has the type of the request's kind, a URL, a title, and
\* the id and name of the site the request was sent to.
C22_OnSelectShape ==
    [][ selections' # selections
            => \E i \in DetailsInFlight :
                   LET v == selections'[Len(selections')] IN
                   /\ inflight' = RemoveAt(inflight, i)
                   /\ lastDetail'.answer = "ok"
                   /\ selections' = Append(selections, v)
                   /\ DOMAIN v = {"content", "metadata"}
                   /\ {"type", "url", "title", "siteId", "siteName"} \subseteq DOMAIN v.metadata
                   /\ v.metadata.type = (IF inflight[i].type = "jira" THEN "atlassian_jira"
                                         ELSE "atlassian_confluence")
                   /\ v.metadata.siteId = inflight[i].site
                   /\ v.metadata.siteName = inflight[i].site
                   /\ v.metadata.url[1] = inflight[i].site
      ]_vars

\* Reading a query string back, as the receiver of the URL does: split at
\* "&", then at the first "=", then undo the escapes of the value.
C23_Unescape(c) ==
    CASE c = "+" -> " "
      [] c = "%26" -> "&"
      [] c = "%3D" -> "="
      [] c = "%2B" -> "+"
      [] c = "%3A" -> ":"
      [] OTHER -> c

RECURSIVE C23_Split(_, _)
C23_Split(q, part) ==
    IF q = <<>> THEN <<part>>
    ELSE IF Head(q) = "&" THEN <<part>> \o C23_Split(Tail(q), <<>>)
    ELSE C23_Split(Tail(q), Append(part, Head(q)))

C23_Pair(part) ==
    IF Len(part) >= 2 /\ part[2] = "="
    THEN <<part[1], [k \in 1..(Len(part) - 2) |-> C23_Unescape(part[k + 2])]>>
    ELSE <<"malformed", part>>

C23_Parse(q) == LET parts == C23_Split(q, <<>>) IN [k \in 1..Len(parts) |-> C23_Pair(parts[k])]

\* C23: generateAtlassianOAuthURL returns a URL on
\* https://auth.atlassian.com/authorize whose parameters are exactly the three
\* fixed ones and the caller's client id, scope, redirect URI and state,
\* unchanged; computing it writes no slot, issues no request, navigates nowhere.
C23_OAuthUrlIsPure ==
    [][ (renderIn.kind = "oauth" /\ rendered' # rendered)
            => /\ rendered'.url.address = "https://auth.atlassian.com/authorize"
               /\ LET params == C23_Parse(rendered'.url.query) IN
                  /\ Len(params) = 7
                  /\ {params[k] : k \in 1..7} =
                         { <<"audience", <<"api.atlassian.com">> >>,
                           <<"response_type", <<"code">> >>,
                           <<"prompt", <<"consent">> >>,
                           <<"client_id", renderIn.args.client>>,
                           <<"scope", renderIn.args.scope>>,
                           <<"redirect_uri", renderIn.args.redirect>>,
                           <<"state", renderIn.args.state>> }
               /\ UNCHANGED <<slot, where, url, issued, inflight, lastCall, generated>>
      ]_vars

\* C23 witness: a URL was built for a scope and a redirect URI that hold
\* characters the serializer escapes.
C23_Witness ==
    /\ renderIn.kind = "oauth"
    /\ rendered # NotRendered
    /\ renderIn.args.scope = <<"a", " ">>
    /\ renderIn.args.redirect = <<"&", "=">>
    /\ slot = Null /\ where = "page" /\ issued = <<>>

\* C24: while the picker's status says not connected, no control of the
\* search UI acts (query, content type) and no request is issued, so no
\* search and no detail request either.
C24_NoRequestWhileUnconnected ==
    [][ ~connected
            => /\ inflight' = inflight
               /\ searchQuery' = searchQuery
               /\ selectedType' = selectedType
      ]_vars

\* C24 witness: the status was loaded and said not connected, the modal is
\* open and no request was issued.
C24_Witness ==
    /\ show
    /\ pkc = "done"
    /\ ~connected
    /\ "Failed to load Atlassian connection" \notin pickerToasts
    /\ inflight = <<>>
    /\ searchQuery = ""

\* What the panel's {#if connectionStatus.connected} branches on.
ShowsConnected(status) == status.kind = "status" /\ status.connected

ShowsUnconnected(status) == status.kind = "status" /\ ~status.connected

\* C25: a declined confirmation issues no DELETE and leaves connectionStatus
\* and the loading flag as they were; the DELETE is issued only by a handler
\* whose confirmation was accepted, and on a displayed page the panel goes
\* from Connected to Unconnected, outside a status answer, only on the
\* answer to such a DELETE.
C25_DeclinedDisconnectChangesNothing ==
    [][ /\ (asked' = "no" /\ asked # "no")
            => UNCHANGED <<dpc, loading, connectionStatus, backendVars, toasts>>
        /\ (dpc # "await" /\ dpc' = "await") => asked' = "yes"
        /\ (/\ where = "page" /\ where' = "page" /\ cpc' = cpc
            /\ ShowsConnected(connectionStatus) /\ ShowsUnconnected(connectionStatus'))
               => dpc = "await" /\ asked = "yes"
      ]_vars

\* The Disconnect button was pressed on a connected panel and the
\* confirmation declined.
C25_Witness ==
    /\ asked = "no"
    /\ where = "page"
    /\ ShowsConnected(connectionStatus)
    /\ dpc = "idle"
    /\ ~loading

\* C27: the atlassian_oauth_state slot is written only by a connect that
\* passed its configuration guard and leaves for the identity provider, and
\* it is read and removed only by the callback handler's state check; every
\* other step leaves it as it was.
C27_SlotOneWriterOneReader ==
    [][ /\ (slot' # slot /\ slot' # Null)
            => /\ where = "page" /\ where' = "away"
               /\ clientId # "" /\ redirectUri # ""
               /\ generated' = slot'
        /\ (slot' # slot /\ slot' = Null)
            => /\ ppc = "awaitConfig" /\ ppc' = "awaitCallback"
               /\ verified'.ran /\ verified'.accepted
               /\ verified'.storedState = slot
        /\ verified' # verified
            => /\ ppc = "awaitConfig"
               /\ verified'.storedState = slot
      ]_vars

\* A connect wrote the slot and the callback handler then checked and
\* removed it.
C27_Witness ==
    /\ generated # Null
    /\ verified.ran /\ verified.accepted
    /\ verified.storedState = generated
    /\ slot = Null

\* C28: in every reachable state connectionStatus is a record with a boolean
\* connected field and a sites list, never null or undefined, whatever the
\* outcome of the status loads so far.
C28_ConnectionStatusWellFormed ==
    /\ connectionStatus # JsNull
    /\ connectionStatus.kind = "status"
    /\ connectionStatus.connected \in BOOLEAN
    /\ connectionStatus.sites \subseteq BackendSites

\* C29: when the DELETE of a confirmed disconnect is answered, the panel
\* turns Unconnected and shows the success message only on a 2xx answer; on
\* any other answer connectionStatus stays as it was and the failure message
\* is shown.
C29_DisconnectSuccessOnlyAfter2xx ==
    [][ (where = "page" /\ dpc = "await" /\ dpc' = "idle" /\ where' = "page"
         /\ lastCall'.method = "disconnect" /\ lastCall'.resp # "ok")
            => /\ connectionStatus' = connectionStatus
               /\ "Failed to disconnect Atlassian account" \in toasts'
               /\ ("Atlassian account disconnected successfully" \in toasts'
                      => "Atlassian account disconnected successfully" \in toasts)
      ]_vars

\* C26: with every issued request answered in the end, a loading flag that
\* is raised comes down again: the panel's, the page overlay's and the
\* content picker's.
C26_LoadingFlagsComeDown ==
    /\ loading ~> ~loading
    /\ pageLoading ~> ~pageLoading
    /\ pickerLoading ~> ~pickerLoading

\* A status request of the panel failed and was reported, every request of
\* the page has completed and the flags are down.
C26_Witness ==
    /\ where = "page"
    /\ lastCall.method = "status"
    /\ lastCall.outcome = "reject"
    /\ cpc = "done" /\ ppc = "done" /\ dpc = "idle"
    /\ ~loading
    /\ ~pageLoading

\* C30: once every request of the picker has completed, the displayed
\* results are those of the search submitted last and are of the selected
\* content type: an answer to a search submitted before a change of the
\* content type is never what the list shows.
C30_DisplayedResultsMatchSelection ==
    (show /\ pkc = "done" /\ inflight = <<>>)
        => \A k \in DOMAIN searchResults : searchResults[k].type = selectedType

\* C31: in the content picker the loading flag is true in every state where
\* a status, search or detail request is in flight.
C31_LoadingWhileRequestInFlight ==
    (\/ pkc = "awaitStatus"
     \/ \E i \in DOMAIN inflight : inflight[i].kind \in {"search", "detail"})
        => pickerLoading

\* C32: a callback exchange is issued only for a return URL that carries a
\* non-empty code, a non-empty state and no error parameter, and it sends
\* that code and state; a URL with a code but no state has no exchange
\* issued for it by either handler.
C32_ExchangeOnlyWithCodeAndState ==
    [][ (issued' # issued /\ issued' # <<>>)
            => LET e == issued'[Len(issued')] IN
               /\ url = landed
               /\ Truthy(url.code) /\ Truthy(url.state) /\ ~Truthy(url.error)
               /\ e.code = url.code /\ e.state = url.state
      ]_vars

\* A return with a code and no state has been handled to the end by both
\* handlers and no exchange was issued.
C32_Witness ==
    /\ Settled
    /\ Truthy(landed.code) /\ ~Truthy(landed.state) /\ ~Truthy(landed.error)
    /\ issued = <<>>
    /\ url = landed

====
